---------------------------- MODULE Spec2Model ----------------------------
(***************************************************************************)
(* LaunchLens: the statistical inference core (A/B readout, proportion     *)
(* comparator, Welch mean comparator, SRM chi-square check) and the        *)
(* callers that apply the flag policy, modelled from the Python sources.   *)
(*                                                                         *)
(* Numbers.  Python floats are modelled by exact rationals <<n, d>> in     *)
(* lowest terms with d > 0; NaN is <<0, 0>>.  A square root is kept        *)
(* symbolically by its radicand, and a p-value by the (squared) statistic  *)
(* whose tail probability it is, so that comparisons of a p-value with a   *)
(* threshold become comparisons of the statistic with a quantile.          *)
(***************************************************************************)
EXTENDS Integers, Sequences, FiniteSets, Bags, TLC

VARIABLES
    fact_sessions,   \* the warehouse table fact_sessions: a bag of session rows
    pc,              \* position of the running program
    readout,         \* outcome of run_readout: status, out (MetricResults), display
    zin,             \* arguments of a _two_proportion_ztest call
    zout,            \* its result
    srm_in,          \* arguments of srm_test / _srm_pval
    srm_out,         \* the SRM results, and the (n_control, n_treatment) of each
                     \* chi-square call made so far
    flags,           \* the flag lines printed by the callers of the SRM check
    tin,             \* the two samples handed to the Mean Comparator
    tout,            \* what _two_sample_ttest and welch_ttest_ci return for them
    cuped_in,        \* the per-user rows (variant, y_rev, x_pre_rev) of cuped.main
    cuped_out,       \* theta, y_cuped, the two comparisons and the variance reduction
    decision         \* the ship/hold decision of the report generator and dashboard

vars == <<fact_sessions, pc, readout, zin, zout, srm_in, srm_out, flags,
          tin, tout, cuped_in, cuped_out, decision>>

----------------------------------------------------------------------------
(* Bounds of the model *)

\* largest number of session rows loaded into fact_sessions
MaxRows == 3

\* largest count handed to the Proportion Comparator directly
MaxCount == 5

\* largest per-variant user or session count seen by the SRM callers
MaxSrm == 4

\* longest sample handed to the Mean Comparator
MaxLen == 3

\* largest revenue of a user during the experiment (y_rev)
MaxValue == 2

\* largest number of users in the CUPED dataset
MaxUsers == 4

----------------------------------------------------------------------------
(* Exact rational arithmetic standing for float arithmetic *)

RECURSIVE Gcd(_, _)
Gcd(a, b) == IF b = 0 THEN a ELSE Gcd(b, a % b)

Abs(a) == IF a < 0 THEN -a ELSE a

NaN == <<0, 0>>

\* what a Python float division by zero leaves: ZeroDivisionError, no value
ZeroDivision == <<1, 0>>

\* not a number (NaN, or no value at all)
IsNaN(q) == q[2] = 0

\* n/d in lowest terms, d > 0; anything over 0 is NaN (numpy: 0/0)
Q(n, d) ==
    IF d = 0 THEN NaN
    ELSE LET g == Gcd(Abs(n), Abs(d))
             s == IF d < 0 THEN -1 ELSE 1
         IN  <<(s * n) \div g, (s * d) \div g>>

Zero == <<0, 1>>
One == <<1, 1>>
FromInt(i) == <<i, 1>>

RAdd(p, q) == IF IsNaN(p) \/ IsNaN(q) THEN NaN
              ELSE LET g == Gcd(p[2], q[2])
                   IN  Q(p[1] * (q[2] \div g) + q[1] * (p[2] \div g),
                         (p[2] \div g) * q[2])
RNeg(p) == IF IsNaN(p) THEN NaN ELSE <<-p[1], p[2]>>
RSub(p, q) == RAdd(p, RNeg(q))
RMul(p, q) == IF IsNaN(p) \/ IsNaN(q) THEN NaN
              ELSE LET g1 == Gcd(Abs(p[1]), q[2])
                       g2 == Gcd(Abs(q[1]), p[2])
                   IN  Q((p[1] \div g1) * (q[1] \div g2),
                         (p[2] \div g2) * (q[2] \div g1))
RDiv(p, q) == IF IsNaN(p) \/ IsNaN(q) \/ q[1] = 0 THEN NaN
              ELSE RMul(p, Q(q[2], q[1]))

\* a/b < c/d for b, d > 0, by the continued-fraction expansion: no products
RECURSIVE FracLess(_, _, _, _)
FracLess(a, b, c, d) ==
    LET qa == a \div b
        qc == c \div d
        ra == a % b
        rc == c % d
    IN  IF qa # qc THEN qa < qc
        ELSE IF rc = 0 THEN FALSE
        ELSE IF ra = 0 THEN TRUE
        ELSE FracLess(d, rc, b, ra)

\* float comparison: every comparison with NaN is false
RLess(p, q) == ~IsNaN(p) /\ ~IsNaN(q) /\ FracLess(p[1], p[2], q[1], q[2])
RGreater(p, q) == RLess(q, p)
RGeq(p, q) == ~IsNaN(p) /\ ~IsNaN(q) /\ ~FracLess(p[1], p[2], q[1], q[2])

\* Python float division a / b
PyDiv(a, b) == IF b = Zero THEN ZeroDivision ELSE RDiv(a, b)

----------------------------------------------------------------------------
(* Symbolic values: confidence bounds and p-values *)

\* base + sign * crit * sqrt(rad), crit the 0.975 quantile of dist (df for t).
\* With rad = 0 the float result is base itself (x - z * 0.0 = x).
Plain(q) == [base |-> q, sign |-> 0, rad |-> Zero, dist |-> "none", df |-> Zero]

Surd(q, sign, rad, dist, df) ==
    IF rad = Zero THEN Plain(q)
    ELSE [base |-> q, sign |-> sign, rad |-> rad, dist |-> dist, df |-> df]

\* the float 1.0
POne == [dist |-> "const", stat2 |-> Zero, df |-> Zero]

PNaN == [dist |-> "nan", stat2 |-> NaN, df |-> Zero]

\* 2 * (1 - norm.cdf(|z|)) with z^2 = zsq; norm.cdf(0) = 0.5 gives 1.0
NormTail(zsq) ==
    IF zsq = Zero THEN POne ELSE [dist |-> "norm", stat2 |-> zsq, df |-> Zero]

\* stats.norm.ppf(0.975)^2 = 3.8414588..., to six decimals
Z975Sq == <<3841459, 1000000>>

\* p < 0.05 for a p-value of the normal test: |z| beyond the 0.975 quantile
PBelow05(p) == p.dist = "norm" /\ RGreater(p.stat2, Z975Sq)

----------------------------------------------------------------------------
(* Proportion Comparator: ab_readout._two_proportion_ztest *)

ZResult(status, branch, p1, p2, diff, lo, hi, pv) ==
    [status |-> status, branch |-> branch, p1 |-> p1, p2 |-> p2, diff |-> diff,
     ci_low |-> lo, ci_high |-> hi, p_value |-> pv]

\* math.sqrt of a negative number: ValueError("math domain error")
ZRaise(branch) ==
    ZResult("ValueError", branch, Zero, Zero, Zero, Plain(Zero), Plain(Zero), POne)

\* radicand of se_ci: p1(1-p1)/n1 + p2(1-p2)/n2   (unpooled)
UnpooledVar(x1, n1, x2, n2) ==
    LET p1 == Q(x1, n1)
        p2 == Q(x2, n2)
    IN  RAdd(RDiv(RMul(p1, RSub(One, p1)), FromInt(n1)),
             RDiv(RMul(p2, RSub(One, p2)), FromInt(n2)))

\* mutant: the z statistic over the unpooled standard error
PooledVar_unpooled(x1, n1, x2, n2) == UnpooledVar(x1, n1, x2, n2)

\* radicand of se_pooled: p_pool(1-p_pool)(1/n1 + 1/n2)
PooledVar(x1, n1, x2, n2) ==
    LET p_pool == Q(x1 + x2, n1 + n2)
    IN  RMul(RMul(p_pool, RSub(One, p_pool)), RAdd(Q(1, n1), Q(1, n2)))

\* mutant: the degenerate case only when both denominators are zero
_two_proportion_ztest_both_zero(x1, n1, x2, n2) ==
    IF n1 = 0 /\ n2 = 0
    THEN ZResult("ok", "degenerate", Zero, Zero, Zero, Plain(Zero), Plain(Zero), POne)
    ELSE LET p1 == Q(x1, n1)
             p2 == Q(x2, n2)
             diff == RSub(p2, p1)
             rad_ci == UnpooledVar(x1, n1, x2, n2)
             rad_pooled == PooledVar(x1, n1, x2, n2)
             lo == Surd(diff, -1, rad_ci, "norm", Zero)
             hi == Surd(diff, 1, rad_ci, "norm", Zero)
         IN  IF RLess(rad_ci, Zero) THEN ZRaise("se_ci")
             ELSE IF RLess(rad_pooled, Zero) THEN ZRaise("se_pooled")
             ELSE IF rad_pooled = Zero
             THEN ZResult("ok", "se_pooled_zero", p1, p2, diff, lo, hi, POne)
             ELSE ZResult("ok", "z_test", p1, p2, diff, lo, hi,
                          NormTail(RDiv(RMul(diff, diff), rad_pooled)))

\* mutant: no se_pooled == 0 guard before z_stat = diff / se_pooled
_two_proportion_ztest_no_se_guard(x1, n1, x2, n2) ==
    IF n1 = 0 \/ n2 = 0
    THEN ZResult("ok", "degenerate", Zero, Zero, Zero, Plain(Zero), Plain(Zero), POne)
    ELSE LET p1 == Q(x1, n1)
             p2 == Q(x2, n2)
             diff == RSub(p2, p1)
             rad_ci == UnpooledVar(x1, n1, x2, n2)
             rad_pooled == PooledVar(x1, n1, x2, n2)
             lo == Surd(diff, -1, rad_ci, "norm", Zero)
             hi == Surd(diff, 1, rad_ci, "norm", Zero)
         IN  IF RLess(rad_ci, Zero) THEN ZRaise("se_ci")
             ELSE IF RLess(rad_pooled, Zero) THEN ZRaise("se_pooled")
             ELSE ZResult("ok", "z_test", p1, p2, diff, lo, hi,
                          [dist |-> "norm", stat2 |-> PyDiv(RMul(diff, diff), rad_pooled),
                           df |-> Zero])

_two_proportion_ztest(x1, n1, x2, n2) ==
    IF n1 = 0 \/ n2 = 0
    THEN ZResult("ok", "degenerate", Zero, Zero, Zero, Plain(Zero), Plain(Zero), POne)
    ELSE LET p1 == Q(x1, n1)
             p2 == Q(x2, n2)
             diff == RSub(p2, p1)
             rad_ci == UnpooledVar(x1, n1, x2, n2)
             rad_pooled == PooledVar(x1, n1, x2, n2)
             lo == Surd(diff, -1, rad_ci, "norm", Zero)
             hi == Surd(diff, 1, rad_ci, "norm", Zero)
         IN  IF RLess(rad_ci, Zero) THEN ZRaise("se_ci")
             ELSE IF RLess(rad_pooled, Zero) THEN ZRaise("se_pooled")
             ELSE IF rad_pooled = Zero
             THEN ZResult("ok", "se_pooled_zero", p1, p2, diff, lo, hi, POne)
             ELSE ZResult("ok", "z_test", p1, p2, diff, lo, hi,
                          NormTail(RDiv(RMul(diff, diff), rad_pooled)))

----------------------------------------------------------------------------
(* Mean Comparator: ab_readout._two_sample_ttest (Welch) *)

RECURSIVE SeqSum(_)
SeqSum(a) == IF a = <<>> THEN 0 ELSE a[1] + SeqSum(Tail(a))

RECURSIVE SeqSumSq(_)
SeqSumSq(a) == IF a = <<>> THEN 0 ELSE a[1] * a[1] + SeqSumSq(Tail(a))

\* np.mean: NaN for an empty sample
Mean(a) == Q(SeqSum(a), Len(a))

\* np.var(a, ddof=1) = (n*sum(x^2) - sum(x)^2) / (n*(n-1)); NaN for n < 2
Var1(a) ==
    LET n == Len(a)
    IN  Q(n * SeqSumSq(a) - SeqSum(a) * SeqSum(a), n * (n - 1))

\* mutant: a t statistic of 0 is not given the p-value 1.0
TTail_nonzero(tsq, df) == [dist |-> "t", stat2 |-> tsq, df |-> df]

\* p-value of stats.ttest_ind(b, a, equal_var=False): t^2 and the Welch df
TTail(tsq, df) ==
    IF tsq = Zero THEN POne ELSE [dist |-> "t", stat2 |-> tsq, df |-> df]

TResult(branch, diff, lo, hi, pv) ==
    [branch |-> branch, diff |-> diff, ci_low |-> lo, ci_high |-> hi, p_value |-> pv]

\* mutant: the degenerate case returns the difference of the means
_two_sample_ttest_late_guard(a, b) ==
    IF Len(a) < 2 \/ Len(b) < 2
    THEN TResult("degenerate", RSub(Mean(b), Mean(a)), Plain(RSub(Mean(b), Mean(a))),
                 Plain(RSub(Mean(b), Mean(a))), POne)
    ELSE LET diff == RSub(Mean(b), Mean(a))
             va == Var1(a)
             vb == Var1(b)
             na == FromInt(Len(a))
             nb == FromInt(Len(b))
             rad == RAdd(RDiv(va, na), RDiv(vb, nb))
             df_num == RMul(rad, rad)
             df_den == RAdd(RDiv(RMul(va, va), RMul(RMul(na, na), FromInt(Len(a) - 1))),
                            RDiv(RMul(vb, vb), RMul(RMul(nb, nb), FromInt(Len(b) - 1))))
             fallback == ~RGreater(df_den, Zero)
             df == IF fallback THEN FromInt(Len(a) + Len(b) - 2) ELSE RDiv(df_num, df_den)
         IN  IF rad = Zero
             THEN TResult("se_zero", diff, Plain(diff), Plain(diff), POne)
             ELSE TResult(IF fallback THEN "welch_fallback" ELSE "welch", diff,
                          Surd(diff, -1, rad, "t", df), Surd(diff, 1, rad, "t", df),
                          TTail(RDiv(RMul(diff, diff), rad), df))

\* mutant: no se == 0 guard before the degrees of freedom
_two_sample_ttest_no_se_guard(a, b) ==
    IF Len(a) < 2 \/ Len(b) < 2
    THEN TResult("degenerate", Zero, Plain(Zero), Plain(Zero), POne)
    ELSE LET diff == RSub(Mean(b), Mean(a))
             va == Var1(a)
             vb == Var1(b)
             na == FromInt(Len(a))
             nb == FromInt(Len(b))
             rad == RAdd(RDiv(va, na), RDiv(vb, nb))
             df_num == RMul(rad, rad)
             df_den == RAdd(RDiv(RMul(va, va), RMul(RMul(na, na), FromInt(Len(a) - 1))),
                            RDiv(RMul(vb, vb), RMul(RMul(nb, nb), FromInt(Len(b) - 1))))
             fallback == ~RGreater(df_den, Zero)
             df == IF fallback THEN FromInt(Len(a) + Len(b) - 2) ELSE RDiv(df_num, df_den)
         IN  TResult(IF fallback THEN "welch_fallback" ELSE "welch", diff,
                          Surd(diff, -1, rad, "t", df), Surd(diff, 1, rad, "t", df),
                          TTail(RDiv(RMul(diff, diff), rad), df))

\* mutant: the Welch-Satterthwaite denominator without the (n - 1) factors
_two_sample_ttest_df_plain(a, b) ==
    IF Len(a) < 2 \/ Len(b) < 2
    THEN TResult("degenerate", Zero, Plain(Zero), Plain(Zero), POne)
    ELSE LET diff == RSub(Mean(b), Mean(a))
             va == Var1(a)
             vb == Var1(b)
             na == FromInt(Len(a))
             nb == FromInt(Len(b))
             rad == RAdd(RDiv(va, na), RDiv(vb, nb))
             df_num == RMul(rad, rad)
             df_den == RAdd(RDiv(RMul(va, va), RMul(na, na)),
                            RDiv(RMul(vb, vb), RMul(nb, nb)))
             fallback == ~RGreater(df_den, Zero)
             df == IF fallback THEN FromInt(Len(a) + Len(b) - 2) ELSE RDiv(df_num, df_den)
         IN  IF rad = Zero
             THEN TResult("se_zero", diff, Plain(diff), Plain(diff), POne)
             ELSE TResult(IF fallback THEN "welch_fallback" ELSE "welch", diff,
                          Surd(diff, -1, rad, "t", df), Surd(diff, 1, rad, "t", df),
                          TTail(RDiv(RMul(diff, diff), rad), df))

_two_sample_ttest(a, b) ==
    IF Len(a) < 2 \/ Len(b) < 2
    THEN TResult("degenerate", Zero, Plain(Zero), Plain(Zero), POne)
    ELSE LET diff == RSub(Mean(b), Mean(a))
             va == Var1(a)
             vb == Var1(b)
             na == FromInt(Len(a))
             nb == FromInt(Len(b))
             rad == RAdd(RDiv(va, na), RDiv(vb, nb))
             df_num == RMul(rad, rad)
             df_den == RAdd(RDiv(RMul(va, va), RMul(RMul(na, na), FromInt(Len(a) - 1))),
                            RDiv(RMul(vb, vb), RMul(RMul(nb, nb), FromInt(Len(b) - 1))))
             fallback == ~RGreater(df_den, Zero)
             df == IF fallback THEN FromInt(Len(a) + Len(b) - 2) ELSE RDiv(df_num, df_den)
         IN  IF rad = Zero
             THEN TResult("se_zero", diff, Plain(diff), Plain(diff), POne)
             ELSE TResult(IF fallback THEN "welch_fallback" ELSE "welch", diff,
                          Surd(diff, -1, rad, "t", df), Surd(diff, 1, rad, "t", df),
                          TTail(RDiv(RMul(diff, diff), rad), df))

----------------------------------------------------------------------------
(* Mean Comparator, second call site: cuped.welch_ttest_ci, over floats *)

\* a.astype(float)
Rats(a) == [i \in 1..Len(a) |-> FromInt(a[i])]

RECURSIVE RSum(_)
RSum(a) == IF a = <<>> THEN Zero ELSE RAdd(a[1], RSum(Tail(a)))

\* np.mean: NaN for an empty sample
RMean(a) == RDiv(RSum(a), FromInt(Len(a)))

RECURSIVE RSumSqDev(_, _)
RSumSqDev(a, m) ==
    IF a = <<>> THEN Zero
    ELSE RAdd(RMul(RSub(a[1], m), RSub(a[1], m)), RSumSqDev(Tail(a), m))

\* np.var(a, ddof=1): sum of squared deviations over max(n - 1, 0); 0/0 is NaN
RVar1(a) ==
    IF Len(a) < 2 THEN NaN ELSE RDiv(RSumSqDev(a, RMean(a)), FromInt(Len(a) - 1))

\* the guard comes after diff and se are computed, and returns diff
welch_ttest_ci(a, b) ==
    LET diff == RSub(RMean(b), RMean(a))
        va == RVar1(a)
        vb == RVar1(b)
        na == FromInt(Len(a))
        nb == FromInt(Len(b))
        rad == RAdd(RDiv(va, na), RDiv(vb, nb))
        df_num == RMul(rad, rad)
        df_den == RAdd(RDiv(RMul(va, va), RMul(RMul(na, na), FromInt(Len(a) - 1))),
                       RDiv(RMul(vb, vb), RMul(RMul(nb, nb), FromInt(Len(b) - 1))))
        fallback == ~RGreater(df_den, Zero)
        df == IF fallback THEN FromInt(Len(a) + Len(b) - 2) ELSE RDiv(df_num, df_den)
    IN  IF rad = Zero \/ Len(a) < 2 \/ Len(b) < 2
        THEN TResult("guard", diff, Plain(diff), Plain(diff), POne)
        ELSE TResult(IF fallback THEN "welch_fallback" ELSE "welch", diff,
                     Surd(diff, -1, rad, "t", df), Surd(diff, 1, rad, "t", df),
                     TTail(RDiv(RMul(diff, diff), rad), df))

----------------------------------------------------------------------------
(* The warehouse table and the query of run_readout *)

ExperimentIds == {"exp_checkout_v1", "exp_other"}

Row(e, per, v, imp, clk, atc, pur, rev) ==
    [experiment_id |-> e, is_experiment_period |-> per, variant |-> v,
     has_impression |-> imp, has_click |-> clk, has_add_to_cart |-> atc,
     has_purchase |-> pur, revenue |-> rev]

\* revenue amounts of a session with a purchase (the Mean Comparator is
\* exercised over richer samples under its own specification)
PurchaseRevenues == {1}

\* fact_sessions rows (build_warehouse.WAREHOUSE_SQL): each funnel flag is the
\* MAX of an independent CASE, so any combination of the four flags occurs;
\* revenue sums the purchase events only, so it is 0 without a purchase.
ExperimentRows ==
    { Row("exp_checkout_v1", TRUE, v, imp, clk, atc, pur, rev) :
        v \in {"control", "treatment"}, imp \in {0, 1}, clk \in {0, 1},
        atc \in {0, 1}, pur \in {0, 1}, rev \in {0} \cup PurchaseRevenues }

\* the rows drawn: every experiment-period row of the experiment, one
\* pre-period row of it and one row of another experiment
SessionRows ==
    { r \in ExperimentRows : (r.has_purchase = 0) <=> (r.revenue = 0) }
      \cup { Row("exp_checkout_v1", FALSE, "control", 1, 1, 0, 0, 0),
             Row("exp_other", TRUE, "treatment", 1, 0, 0, 0, 0) }

RECURSIVE BagToSeq(_)
BagToSeq(B) ==
    IF DOMAIN B = {} THEN <<>>
    ELSE LET r == CHOOSE x \in DOMAIN B : TRUE
         IN  <<r>> \o BagToSeq(B (-) SetToBag({r}))

RECURSIVE SelectSeq2(_, _, _)
SelectSeq2(s, f, val) ==
    IF s = <<>> THEN <<>>
    ELSE (IF s[1][f] = val THEN <<s[1]>> ELSE <<>>) \o SelectSeq2(Tail(s), f, val)

\* SELECT ... FROM fact_sessions WHERE experiment_id = ? AND is_experiment_period = TRUE
QuerySessions(table, experiment_id) ==
    SelectSeq2(SelectSeq2(BagToSeq(table), "experiment_id", experiment_id),
               "is_experiment_period", TRUE)

\* df[df["variant"] == label]
Arm(df, label) == SelectSeq2(df, "variant", label)

\* int(c[col].sum())
RECURSIVE ColSum(_, _)
ColSum(rows, col) == IF rows = <<>> THEN 0 ELSE rows[1][col] + ColSum(Tail(rows), col)

RECURSIVE Column(_, _)
Column(rows, col) == IF rows = <<>> THEN <<>> ELSE <<rows[1][col]>> \o Column(Tail(rows), col)

----------------------------------------------------------------------------
(* Readout Orchestrator: ab_readout.run_readout *)

\* the tracked metrics, in the order run_readout computes them
MetricOrder ==
    <<"purchase_rate_per_session", "ctr", "atc_rate", "purchase_rate_given_atc",
      "revenue_per_session">>

\* mutant: the session count as the denominator of ctr
ProportionArgs_sessions(c, t, metric) ==
    IF metric = "purchase_rate_per_session"
        THEN <<ColSum(c, "has_purchase"), Len(c), ColSum(t, "has_purchase"), Len(t)>>
    ELSE IF metric = "ctr"
        THEN <<ColSum(c, "has_click"), Len(c), ColSum(t, "has_click"), Len(t)>>
    ELSE IF metric = "atc_rate"
        THEN <<ColSum(c, "has_add_to_cart"), ColSum(c, "has_click"),
               ColSum(t, "has_add_to_cart"), ColSum(t, "has_click")>>
    ELSE <<ColSum(c, "has_purchase"), ColSum(c, "has_add_to_cart"),
           ColSum(t, "has_purchase"), ColSum(t, "has_add_to_cart")>>

\* (x1, n1, x2, n2) handed to _two_proportion_ztest for each proportion metric;
\* c and t are the control and treatment rows
ProportionArgs(c, t, metric) ==
    IF metric = "purchase_rate_per_session"
        THEN <<ColSum(c, "has_purchase"), Len(c), ColSum(t, "has_purchase"), Len(t)>>
    ELSE IF metric = "ctr"
        THEN <<ColSum(c, "has_click"), ColSum(c, "has_impression"),
               ColSum(t, "has_click"), ColSum(t, "has_impression")>>
    ELSE IF metric = "atc_rate"
        THEN <<ColSum(c, "has_add_to_cart"), ColSum(c, "has_click"),
               ColSum(t, "has_add_to_cart"), ColSum(t, "has_click")>>
    ELSE <<ColSum(c, "has_purchase"), ColSum(c, "has_add_to_cart"),
           ColSum(t, "has_purchase"), ColSum(t, "has_add_to_cart")>>

\* mutant: the division without the control > 0 guard
RelDiff_unguarded(diff, control) == PyDiv(diff, control)

\* rel_diff=(diff / control) if control > 0 else np.nan
RelDiff(diff, control) ==
    IF RGreater(control, Zero) THEN PyDiv(diff, control) ELSE NaN

MetricResult(metric, control, treatment, abs_diff, lo, hi, pv) ==
    [metric |-> metric, control |-> control, treatment |-> treatment,
     abs_diff |-> abs_diff, rel_diff |-> RelDiff(abs_diff, control),
     ci_low |-> lo, ci_high |-> hi, p_value |-> pv]

ProportionMetric(metric, z) ==
    MetricResult(metric, z.p1, z.p2, z.diff, z.ci_low, z.ci_high, z.p_value)

\* revenue_per_session: control and treatment are the arm means, whatever
\* _two_sample_ttest returned
RevenueMetric(c, t) ==
    LET r == _two_sample_ttest(Column(c, "revenue"), Column(t, "revenue"))
    IN  MetricResult("revenue_per_session", Mean(Column(c, "revenue")),
                     Mean(Column(t, "revenue")), r.diff, r.ci_low, r.ci_high, r.p_value)

\* the five computations in order; a raising one ends the run with the
\* MetricResults stored so far
RECURSIVE ComputeMetrics(_, _, _, _)
ComputeMetrics(c, t, todo, out) ==
    IF todo = <<>> THEN [status |-> "ok", out |-> out]
    ELSE IF Head(todo) = "revenue_per_session"
    THEN ComputeMetrics(c, t, Tail(todo), Append(out, RevenueMetric(c, t)))
    ELSE LET a == ProportionArgs(c, t, Head(todo))
             z == _two_proportion_ztest(a[1], a[2], a[3], a[4])
         IN  IF z.status # "ok" THEN [status |-> z.status, out |-> out]
             ELSE ComputeMetrics(c, t, Tail(todo),
                                 Append(out, ProportionMetric(Head(todo), z)))

(* Formatting of the display table *)

\* q * scale rounded to the nearest integer (ties to even): "%.3f" and "%.4f"
RoundScaled(q, scale) ==
    LET n == q[1] * scale
        f == n \div q[2]
        r == n % q[2]
    IN  IF 2 * r < q[2] THEN f
        ELSE IF 2 * r > q[2] THEN f + 1
        ELSE IF f % 2 = 0 THEN f ELSE f + 1

\* a formatted cell: kind of format, and the digits as an integer number of
\* units of the last decimal; "nan" for a NaN; "symbolic" for a bound kept
\* symbolically; "rounded" for the 4 decimals of a symbolic p-value, which
\* units then holds
Cell(kind, text, units) == [kind |-> kind, text |-> text, units |-> units]

FmtRat(kind, q, scale) ==
    IF IsNaN(q) THEN Cell(kind, "nan", 0) ELSE Cell(kind, "digits", RoundScaled(q, scale))

FmtBound(kind, s, scale) ==
    IF s.sign = 0 THEN FmtRat(kind, s.base, scale) ELSE Cell(kind, "symbolic", 0)

FmtP(p) ==
    IF p.dist = "const" THEN Cell("num", "digits", 10000)
    ELSE IF p.dist = "nan" THEN Cell("num", "nan", 0)
    ELSE Cell("num", "rounded", p)

\* rel(x) if pd.notnull(x) else "NA"
FmtRel(q) == IF IsNaN(q) THEN Cell("NA", "NA", 0) ELSE FmtRat("rel", q, 10000)

\* pct(x) = "%.3f%%" of x*100 for the proportion metrics, num(x) = "%.4f" for revenue
FormatRow(r) ==
    LET kind == IF r.metric = "revenue_per_session" THEN "num" ELSE "pct"
        scale == IF r.metric = "revenue_per_session" THEN 10000 ELSE 100000
    IN  [metric |-> r.metric,
         control |-> FmtRat(kind, r.control, scale),
         treatment |-> FmtRat(kind, r.treatment, scale),
         abs_diff |-> FmtRat(kind, r.abs_diff, scale),
         rel_diff |-> FmtRel(r.rel_diff),
         ci_low |-> FmtBound(kind, r.ci_low, scale),
         ci_high |-> FmtBound(kind, r.ci_high, scale),
         p_value |-> FmtP(r.p_value)]

RECURSIVE FormatRows(_)
FormatRows(out) ==
    IF out = <<>> THEN <<>> ELSE <<FormatRow(out[1])>> \o FormatRows(Tail(out))

\* the characters of a metric name, as code points
MetricChars(metric) ==
    IF metric = "purchase_rate_per_session"
        THEN <<112, 117, 114, 99, 104, 97, 115, 101, 95, 114, 97, 116, 101, 95, 112, 101, 114, 95, 115, 101, 115, 115, 105, 111, 110>>
    ELSE IF metric = "ctr"
        THEN <<99, 116, 114>>
    ELSE IF metric = "atc_rate"
        THEN <<97, 116, 99, 95, 114, 97, 116, 101>>
    ELSE IF metric = "purchase_rate_given_atc"
        THEN <<112, 117, 114, 99, 104, 97, 115, 101, 95, 114, 97, 116, 101, 95, 103, 105, 118, 101, 110, 95, 97, 116, 99>>
    ELSE IF metric = "revenue_per_session"
        THEN <<114, 101, 118, 101, 110, 117, 101, 95, 112, 101, 114, 95, 115, 101, 115, 115, 105, 111, 110>>
    ELSE <<>>

\* Python string order: lexicographic by code point, a proper prefix first
RECURSIVE LexLess(_, _)
LexLess(a, b) ==
    IF b = <<>> THEN FALSE
    ELSE IF a = <<>> THEN TRUE
    ELSE IF a[1] # b[1] THEN a[1] < b[1]
    ELSE LexLess(Tail(a), Tail(b))

RECURSIVE InsertSorted(_, _)
InsertSorted(row, sorted) ==
    IF sorted = <<>> THEN <<row>>
    ELSE IF LexLess(MetricChars(row.metric), MetricChars(sorted[1].metric))
    THEN <<row>> \o sorted
    ELSE <<sorted[1]>> \o InsertSorted(row, Tail(sorted))

\* mutant: the rows left in the order they were computed
SortByMetric_unsorted(rows) == rows

\* display.sort_values("metric")
RECURSIVE SortByMetric(_)
SortByMetric(rows) ==
    IF rows = <<>> THEN <<>> ELSE InsertSorted(rows[1], SortByMetric(Tail(rows)))

\* mutant: no df.empty check before the metrics
run_readout_no_empty_check(table, experiment_id) ==
    LET df == QuerySessions(table, experiment_id)
        m == ComputeMetrics(Arm(df, "control"), Arm(df, "treatment"), MetricOrder, <<>>)
    IN  IF m.status # "ok"
        THEN [status |-> m.status, msg |-> "math domain error",
              experiment_id |-> experiment_id, out |-> m.out, display |-> <<>>]
        ELSE [status |-> "ok", msg |-> "", experiment_id |-> experiment_id,
              out |-> m.out, display |-> SortByMetric(FormatRows(m.out))]

\* run_readout(db_path, experiment_id): what the call ends with
run_readout(table, experiment_id) ==
    LET df == QuerySessions(table, experiment_id)
        m == ComputeMetrics(Arm(df, "control"), Arm(df, "treatment"), MetricOrder, <<>>)
    IN  IF df = <<>>
        THEN [status |-> "ValueError", msg |-> "No experiment-period sessions found",
              experiment_id |-> experiment_id, out |-> <<>>, display |-> <<>>]
        ELSE IF m.status # "ok"
        THEN [status |-> m.status, msg |-> "math domain error",
              experiment_id |-> experiment_id, out |-> m.out, display |-> <<>>]
        ELSE [status |-> "ok", msg |-> "", experiment_id |-> experiment_id,
              out |-> m.out, display |-> SortByMetric(FormatRows(m.out))]

----------------------------------------------------------------------------
(* Decision layer: generate_report.main and dashboards/app.py *)

\* norm.ppf(1 - 0.04995/2)^2 = 3.8431364...: a p-value of the normal test
\* prints as at most "0.0499" exactly when z^2 is above it
Z04995Sq == <<3843136, 1000000>>

\* float(primary["p_value"]) < 0.05, on the formatted cell
ParsedPBelow05(cell) ==
    IF cell.text = "digits" THEN cell.units < 500
    ELSE IF cell.text = "rounded"
    THEN cell.units.dist = "norm" /\ RGreater(cell.units.stat2, Z04995Sq)
    ELSE FALSE

\* float(str(primary["abs_diff"]).replace("%", "")) / 100.0 > 0
ParsedAbsDiffPositive(cell) == cell.text = "digits" /\ cell.units > 0

\* ship = (pval_primary < 0.05) and (abs_diff_num > 0), both parsed from the
\* display row of the primary metric; r is the MetricResult behind that row
Decide(r) ==
    IF ParsedPBelow05(FormatRow(r).p_value) /\ ParsedAbsDiffPositive(FormatRow(r).abs_diff)
    THEN "ship" ELSE "hold"

----------------------------------------------------------------------------
(* SRM Checker: srm_guardrails.srm_test and generate_report._srm_pval *)

\* chi2.sf(chi2, 1): 1.0 at chi2 = 0, NaN for NaN
Chi2Tail(chi2) ==
    IF IsNaN(chi2) THEN PNaN
    ELSE IF chi2 = Zero THEN POne
    ELSE [dist |-> "chi2", stat2 |-> chi2, df |-> One]

\* the 0.99 quantile of chi-square with 1 degree of freedom, 6.6348966...
Chi2Q99 == <<6634897, 1000000>>

\* p < 0.01 and p >= 0.01 as floats: both false for NaN
PBelow01(p) == p.dist = "chi2" /\ RGreater(p.stat2, Chi2Q99)
PAtLeast01(p) == p.dist = "const" \/ (p.dist = "chi2" /\ ~RGreater(p.stat2, Chi2Q99))

\* stats.chisquare(f_obs, f_exp): sum of (obs - exp)^2 / exp; numpy 0/0 is NaN
ChiSquare(obs_c, obs_t, exp_c, exp_t) ==
    LET term(o, e) == RDiv(RMul(RSub(o, e), RSub(o, e)), e)
    IN  RAdd(term(obs_c, exp_c), term(obs_t, exp_t))

\* mutant: the expected counts of the two variants exchanged
srm_test_swapped(n_control, n_treatment, expected_share_treatment) ==
    LET total == FromInt(n_control + n_treatment)
        exp_c == RMul(total, expected_share_treatment)
        exp_t == RMul(total, RSub(One, expected_share_treatment))
        chi2 == ChiSquare(FromInt(n_control), FromInt(n_treatment), exp_c, exp_t)
    IN  [level |-> "count", n_control |-> n_control, n_treatment |-> n_treatment,
         expected_share_treatment |-> expected_share_treatment,
         chi2 |-> chi2, p_value |-> Chi2Tail(chi2)]

srm_test(n_control, n_treatment, expected_share_treatment) ==
    LET total == FromInt(n_control + n_treatment)
        exp_t == RMul(total, expected_share_treatment)
        exp_c == RMul(total, RSub(One, expected_share_treatment))
        chi2 == ChiSquare(FromInt(n_control), FromInt(n_treatment), exp_c, exp_t)
    IN  [level |-> "count", n_control |-> n_control, n_treatment |-> n_treatment,
         expected_share_treatment |-> expected_share_treatment,
         chi2 |-> chi2, p_value |-> Chi2Tail(chi2)]

_srm_pval(nc, nt, expected_treat) ==
    LET total == FromInt(nc + nt)
        exp_c == RMul(total, RSub(One, expected_treat))
        exp_t == RMul(total, expected_treat)
        chi2 == ChiSquare(FromInt(nc), FromInt(nt), exp_c, exp_t)
    IN  [chi2 |-> chi2, p_value |-> Chi2Tail(chi2)]

\* SELECT variant, COUNT(*) ... GROUP BY 1: one row per variant that has rows
GroupCounts(n_control, n_treatment) ==
    { [variant |-> "control", n |-> n_control] : x \in {1} \cap 1..n_control }
      \cup { [variant |-> "treatment", n |-> n_treatment] : x \in {1} \cap 1..n_treatment }

\* get_count / _get_count: 0 when the variant has no row
get_count(df, label) ==
    LET sub == { r \in df : r.variant = label }
    IN  IF sub = {} THEN 0 ELSE (CHOOSE r \in sub : TRUE).n

\* the FLAG line of srm_guardrails.main
GuardrailsFlag(p) == IF PAtLeast01(p) THEN "OK" ELSE "SRM detected"

\* the arrows of the report's SRM section
ReportUserFlag(p) == IF PAtLeast01(p) THEN "OK" ELSE "SRM"
ReportSessionFlag(p) == IF PAtLeast01(p) THEN "OK" ELSE "Flag"

----------------------------------------------------------------------------
(* Variance-Reduction Adjuster: cuped.main *)

\* users.pre_rev, the pre-period covariate, as it occurs in the rows
PreRevs == {0, 1}

\* one row per user of the query: variant, y_rev, x_pre_rev
CupedRows ==
    { [variant |-> v, y_rev |-> y, x_pre_rev |-> x] :
        v \in {"control", "treatment"}, y \in 0..MaxValue, x \in PreRevs }

RECURSIVE RSumProdDev(_, _, _, _)
RSumProdDev(y, my, x, mx) ==
    IF y = <<>> THEN Zero
    ELSE RAdd(RMul(RSub(y[1], my), RSub(x[1], mx)),
              RSumProdDev(Tail(y), my, Tail(x), mx))

\* np.cov(y, x, ddof=1)[0, 1]; NaN with fewer than 2 observations
Cov1(y, x) ==
    IF Len(y) < 2 THEN NaN
    ELSE RDiv(RSumProdDev(y, RMean(y), x, RMean(x)), FromInt(Len(y) - 1))

\* mutant: theta without the var_x > 0 test
Theta_unguarded(cov_yx, var_x) == PyDiv(cov_yx, var_x)

\* mutant: theta with the opposite sign
Theta_negated(cov_yx, var_x) ==
    IF RGreater(var_x, Zero) THEN RNeg(PyDiv(cov_yx, var_x)) ELSE Zero

\* theta = cov_yx / var_x if var_x > 0 else 0.0
Theta(cov_yx, var_x) ==
    IF RGreater(var_x, Zero) THEN PyDiv(cov_yx, var_x) ELSE Zero

\* y_cuped = y - theta * (x - x_mean)
YCuped(y, x, theta, x_mean) ==
    [i \in 1..Len(y) |-> RSub(y[i], RMul(theta, RSub(x[i], x_mean)))]

\* the rows of one variant, in the columns y_rev and y_rev_cuped
CupedArm(df, y_cuped, label, cuped) ==
    LET idx == SelectSeq([i \in 1..Len(df) |-> i], LAMBDA i : df[i].variant = label)
    IN  [k \in 1..Len(idx) |->
            IF cuped THEN y_cuped[idx[k]] ELSE FromInt(df[idx[k]].y_rev)]

\* var_red = (1 - (var_cup / var_raw)) if var_raw > 0 else 0.0
VarRed(var_raw, var_cup) ==
    IF RGreater(var_raw, Zero) THEN RSub(One, PyDiv(var_cup, var_raw)) ELSE Zero

\* cuped.main from the fetched rows to the printed numbers
cuped_main(df) ==
    LET x == [i \in 1..Len(df) |-> FromInt(df[i].x_pre_rev)]
        y == [i \in 1..Len(df) |-> FromInt(df[i].y_rev)]
        x_mean == RMean(x)
        cov_yx == Cov1(y, x)
        var_x == RVar1(x)
        theta == Theta(cov_yx, var_x)
        y_cuped == YCuped(y, x, theta, x_mean)
        var_raw == RVar1(y)
        var_cup == RVar1(y_cuped)
    IN  [status |-> "ok", x |-> x, y |-> y, var_x |-> var_x, theta |-> theta,
         y_cuped |-> y_cuped,
         raw |-> welch_ttest_ci(CupedArm(df, y_cuped, "control", FALSE),
                                CupedArm(df, y_cuped, "treatment", FALSE)),
         cup |-> welch_ttest_ci(CupedArm(df, y_cuped, "control", TRUE),
                                CupedArm(df, y_cuped, "treatment", TRUE)),
         var_raw |-> var_raw, var_cup |-> var_cup,
         var_red |-> VarRed(var_raw, var_cup)]

----------------------------------------------------------------------------
(* Values of the variables a specification does not use *)

NoReadout ==
    [status |-> "none", msg |-> "", experiment_id |-> "", out |-> <<>>, display |-> <<>>]
NoZIn == <<0, 0, 0, 0>>
NoZOut == ZResult("none", "none", Zero, Zero, Zero, Plain(Zero), Plain(Zero), POne)
NoSrmIn == [users |-> <<0, 0>>, sessions |-> <<0, 0>>, share |-> <<1, 2>>, readout |-> "ok"]
NoSrmOut ==
    [user |-> srm_test(1, 1, <<1, 2>>), session |-> srm_test(1, 1, <<1, 2>>),
     calls |-> <<>>]
NoFlags == [caller |-> "none", status |-> "none", user |-> "none", session |-> "none"]
NoTIn == [a |-> <<>>, b |-> <<>>]
NoT == TResult("none", Zero, Plain(Zero), Plain(Zero), POne)
NoTOut == [ab |-> NoT, cuped |-> NoT]
NoCupedIn == EmptyBag
NoCupedOut == [status |-> "none"]
NoDecision == [status |-> "none", caller |-> "none", decision |-> "none"]

----------------------------------------------------------------------------
(* Specification Spec: the warehouse table is loaded, then run_readout runs *)

Init ==
    /\ fact_sessions = EmptyBag
    /\ pc = "load"
    /\ readout = NoReadout
    /\ zin = NoZIn
    /\ zout = NoZOut
    /\ srm_in = NoSrmIn
    /\ srm_out = NoSrmOut
    /\ flags = NoFlags
    /\ tin = NoTIn
    /\ tout = NoTOut
    /\ cuped_in = NoCupedIn
    /\ cuped_out = NoCupedOut
    /\ decision = NoDecision

\* one more session row in fact_sessions
InsertSession(r) ==
    /\ pc = "load"
    /\ BagCardinality(fact_sessions) < MaxRows
    /\ fact_sessions' = fact_sessions (+) SetToBag({r})
    /\ UNCHANGED <<pc, readout, zin, zout, srm_in, srm_out, flags,
                 tin, tout, cuped_in, cuped_out, decision>>

\* ab_readout.run_readout(db, experiment_id), to its return or its raise
RunReadout(experiment_id) ==
    /\ pc = "load"
    /\ readout' = run_readout(fact_sessions, experiment_id)
    /\ pc' = "done"
    /\ UNCHANGED <<fact_sessions, zin, zout, srm_in, srm_out, flags,
                 tin, tout, cuped_in, cuped_out, decision>>

Next ==
    \/ \E r \in SessionRows : InsertSession(r)
    \/ \E e \in ExperimentIds : RunReadout(e)

Spec == Init /\ [][Next]_vars

----------------------------------------------------------------------------
(* Specification SpecProportion: one call of the Proportion Comparator *)

\* the end-to-end scenario of the design: 100/1000 against 120/1000
ScenarioZ == <<100, 1000, 120, 1000>>

ZInputs == ((0..MaxCount) \X (0..MaxCount) \X (0..MaxCount) \X (0..MaxCount))
             \cup {ScenarioZ}

InitProportion ==
    /\ zin \in ZInputs
    /\ pc = "z_call"
    /\ zout = NoZOut
    /\ fact_sessions = EmptyBag
    /\ readout = NoReadout
    /\ srm_in = NoSrmIn
    /\ srm_out = NoSrmOut
    /\ flags = NoFlags
    /\ tin = NoTIn
    /\ tout = NoTOut
    /\ cuped_in = NoCupedIn
    /\ cuped_out = NoCupedOut
    /\ decision = NoDecision

CallZTest ==
    /\ pc = "z_call"
    /\ zout' = _two_proportion_ztest(zin[1], zin[2], zin[3], zin[4])
    /\ pc' = "z_done"
    /\ UNCHANGED <<fact_sessions, readout, zin, srm_in, srm_out, flags,
                 tin, tout, cuped_in, cuped_out, decision>>

NextProportion == CallZTest

SpecProportion == InitProportion /\ [][NextProportion]_vars

----------------------------------------------------------------------------
(* Specification SpecMean: the Mean Comparator called at its two call      *)
(* sites, ab_readout._two_sample_ttest and cuped.welch_ttest_ci, on the    *)
(* same pair of samples                                                    *)

\* all sequences over S of length at most n
SeqsUpTo(S, n) == UNION { [1..k -> S] : k \in 0..n }

\* the observations of a sample: revenue amounts
Observations == {0, 1, 2}

Samples == SeqsUpTo(Observations, MaxLen)

InitMean ==
    /\ tin \in { [a |-> a, b |-> b] : a \in Samples, b \in Samples }
    /\ tout = NoTOut
    /\ pc = "t_call"
    /\ fact_sessions = EmptyBag
    /\ readout = NoReadout
    /\ zin = NoZIn
    /\ zout = NoZOut
    /\ srm_in = NoSrmIn
    /\ srm_out = NoSrmOut
    /\ flags = NoFlags
    /\ cuped_in = NoCupedIn
    /\ cuped_out = NoCupedOut
    /\ decision = NoDecision

\* diff, (ci_low, ci_high), pval = _two_sample_ttest(a, b)
CallTwoSampleTTest ==
    /\ pc = "t_call"
    /\ tout.ab.branch = "none"
    /\ tout' = [tout EXCEPT !.ab = _two_sample_ttest(tin.a, tin.b)]
    /\ UNCHANGED <<fact_sessions, pc, readout, zin, zout, srm_in, srm_out, flags,
                   tin, cuped_in, cuped_out, decision>>

\* diff, lo, hi, p = welch_ttest_ci(a, b)
CallWelchTTestCI ==
    /\ pc = "t_call"
    /\ tout.cuped.branch = "none"
    /\ tout' = [tout EXCEPT !.cuped = welch_ttest_ci(Rats(tin.a), Rats(tin.b))]
    /\ UNCHANGED <<fact_sessions, pc, readout, zin, zout, srm_in, srm_out, flags,
                   tin, cuped_in, cuped_out, decision>>

NextMean == CallTwoSampleTTest \/ CallWelchTTestCI

SpecMean == InitMean /\ [][NextMean]_vars

----------------------------------------------------------------------------
(* Specification SpecCuped: the user rows are loaded, then cuped.main runs *)

InitCuped ==
    /\ cuped_in = EmptyBag
    /\ cuped_out = NoCupedOut
    /\ pc = "cuped_load"
    /\ fact_sessions = EmptyBag
    /\ readout = NoReadout
    /\ zin = NoZIn
    /\ zout = NoZOut
    /\ srm_in = NoSrmIn
    /\ srm_out = NoSrmOut
    /\ flags = NoFlags
    /\ tin = NoTIn
    /\ tout = NoTOut
    /\ decision = NoDecision

\* one more user with experiment-period sessions
InsertUser(r) ==
    /\ pc = "cuped_load"
    /\ BagCardinality(cuped_in) < MaxUsers
    /\ cuped_in' = cuped_in (+) SetToBag({r})
    /\ UNCHANGED <<fact_sessions, pc, readout, zin, zout, srm_in, srm_out, flags,
                   tin, tout, cuped_out, decision>>

\* cuped.main, from the query result to the report
CupedMain ==
    /\ pc = "cuped_load"
    /\ cuped_out' = cuped_main(BagToSeq(cuped_in))
    /\ pc' = "cuped_done"
    /\ UNCHANGED <<fact_sessions, readout, zin, zout, srm_in, srm_out, flags,
                   tin, tout, cuped_in, decision>>

NextCuped ==
    \/ \E r \in CupedRows : InsertUser(r)
    \/ CupedMain

SpecCuped == InitCuped /\ [][NextCuped]_vars

----------------------------------------------------------------------------
(* Specification SpecDecision: the ship/hold decision of the report        *)
(* generator and of the dashboard, from the session and purchase counts of *)
(* the two arms; of the readout only the primary metric's row is kept      *)

\* 0/3 against 29/50 purchases: z^2 = 3.8425, p = 0.049969
NearThresholdZ == <<0, 3, 29, 50>>

\* purchases and sessions per arm: 0 <= purchases <= sessions, and at least
\* one experiment-period session
DecisionInputs ==
    { i \in ZInputs : i[1] <= i[2] /\ i[3] <= i[4] /\ i[2] + i[4] > 0 }
      \cup {NearThresholdZ}

InitDecision ==
    /\ zin \in DecisionInputs
    /\ pc = "decide"
    /\ decision = NoDecision
    /\ readout = NoReadout
    /\ zout = NoZOut
    /\ fact_sessions = EmptyBag
    /\ srm_in = NoSrmIn
    /\ srm_out = NoSrmOut
    /\ flags = NoFlags
    /\ tin = NoTIn
    /\ tout = NoTOut
    /\ cuped_in = NoCupedIn
    /\ cuped_out = NoCupedOut

\* the primary row of run_readout and the decision rule applied to it
DecideBy(caller) ==
    /\ pc = "decide"
    /\ LET z == _two_proportion_ztest(zin[1], zin[2], zin[3], zin[4])
           r == ProportionMetric("purchase_rate_per_session", z)
       IN  /\ zout' = z
           /\ readout' = [status |-> "ok", msg |-> "", experiment_id |-> "exp_checkout_v1",
                          out |-> <<r>>, display |-> <<FormatRow(r)>>]
           /\ decision' = [status |-> "ok", caller |-> caller, decision |-> Decide(r)]
    /\ pc' = "decided"
    /\ UNCHANGED <<fact_sessions, zin, srm_in, srm_out, flags,
                   tin, tout, cuped_in, cuped_out>>

\* generate_report.main, the readout and the decision rule
GenerateReportDecision == DecideBy("generate_report")

\* dashboards/app.py, the readout and the decision logic
DashboardDecision == DecideBy("dashboard")

NextDecision == GenerateReportDecision \/ DashboardDecision

SpecDecision == InitDecision /\ [][NextDecision]_vars

----------------------------------------------------------------------------
(* Specification SpecSRM: the SRM check of the monitoring CLI and of the   *)
(* report generator over per-variant user and session counts               *)

\* --expected_treatment_share (default 0.50)
Shares == {<<1, 2>>, <<1, 4>>, <<7, 10>>}

SrmCounts == ((0..MaxSrm) \X (0..MaxSrm)) \cup {<<5000, 5000>>, <<6000, 4000>>}

\* readout: how the run_readout call of the report generator ends; with no
\* experiment-period session it raises
SrmInputs ==
    { [users |-> u, sessions |-> s, share |-> sh, readout |-> ro] :
        u \in SrmCounts, s \in SrmCounts, sh \in Shares, ro \in {"ok", "ValueError"} }

InitSRM ==
    /\ srm_in \in { i \in SrmInputs : i.sessions = <<0, 0>> => i.readout = "ValueError" }
    /\ pc = "srm_start"
    /\ srm_out = NoSrmOut
    /\ flags = NoFlags
    /\ fact_sessions = EmptyBag
    /\ readout = NoReadout
    /\ zin = NoZIn
    /\ zout = NoZOut
    /\ tin = NoTIn
    /\ tout = NoTOut
    /\ cuped_in = NoCupedIn
    /\ cuped_out = NoCupedOut
    /\ decision = NoDecision

\* srm_guardrails.main: counts, two srm_test calls, the two FLAG lines
SrmGuardrailsMain ==
    /\ pc = "srm_start"
    /\ LET users == GroupCounts(srm_in.users[1], srm_in.users[2])
           sessions == GroupCounts(srm_in.sessions[1], srm_in.sessions[2])
           user_srm == srm_test(get_count(users, "control"),
                                get_count(users, "treatment"), srm_in.share)
           sess_srm == srm_test(get_count(sessions, "control"),
                                get_count(sessions, "treatment"), srm_in.share)
       IN  /\ srm_out' = [user |-> user_srm, session |-> sess_srm,
                          calls |-> <<<<get_count(users, "control"),
                                        get_count(users, "treatment")>>,
                                      <<get_count(sessions, "control"),
                                        get_count(sessions, "treatment")>>>>]
           /\ flags' = [caller |-> "srm_guardrails", status |-> "ok",
                        user |-> GuardrailsFlag(user_srm.p_value),
                        session |-> GuardrailsFlag(sess_srm.p_value)]
    /\ pc' = "srm_done"
    /\ UNCHANGED <<fact_sessions, readout, zin, zout, srm_in,
                 tin, tout, cuped_in, cuped_out, decision>>

\* generate_report.main: counts, two _srm_pval calls, run_readout, and the
\* SRM section of the report when it is written
GenerateReportMain ==
    /\ pc = "srm_start"
    /\ LET users == GroupCounts(srm_in.users[1], srm_in.users[2])
           sessions == GroupCounts(srm_in.sessions[1], srm_in.sessions[2])
           u == _srm_pval(get_count(users, "control"),
                          get_count(users, "treatment"), srm_in.share)
           s == _srm_pval(get_count(sessions, "control"),
                          get_count(sessions, "treatment"), srm_in.share)
       IN  /\ srm_out' = [user |-> u, session |-> s,
                          calls |-> <<<<get_count(users, "control"),
                                        get_count(users, "treatment")>>,
                                      <<get_count(sessions, "control"),
                                        get_count(sessions, "treatment")>>>>]
           /\ flags' = IF srm_in.readout = "ok"
                       THEN [caller |-> "generate_report", status |-> "ok",
                             user |-> ReportUserFlag(u.p_value),
                             session |-> ReportSessionFlag(s.p_value)]
                       ELSE [caller |-> "generate_report", status |-> "ValueError",
                             user |-> "none", session |-> "none"]
    /\ pc' = "srm_done"
    /\ UNCHANGED <<fact_sessions, readout, zin, zout, srm_in,
                 tin, tout, cuped_in, cuped_out, decision>>

NextSRM == SrmGuardrailsMain \/ GenerateReportMain

SpecSRM == InitSRM /\ [][NextSRM]_vars

----------------------------------------------------------------------------
(* Properties *)

\* the rows of fact_sessions the query of the finished readout selects
Selected ==
    { r \in DOMAIN fact_sessions :
        r.experiment_id = readout.experiment_id /\ r.is_experiment_period }

\* C1: when the filtered experiment-period observation set is empty,
\* run_readout ends with the no-data error raised to the caller, with no
\* table and with no metric computed.
C1_EmptyRaisesNoData ==
    (pc = "done" /\ Selected = {})
        => /\ readout.status = "ValueError"
           /\ readout.msg = "No experiment-period sessions found"
           /\ readout.out = <<>>
           /\ readout.display = <<>>

\* C1 witness: a table with rows, none of them selected, and the error raised
C1_Witness ==
    /\ pc = "done"
    /\ DOMAIN fact_sessions # {}
    /\ Selected = {}
    /\ readout.status = "ValueError"
    /\ readout.out = <<>>

\* C2 (as claimed): for every non-empty observation set run_readout returns a
\* table; no formula raises an arithmetic fault.
C2_NoArithmeticFault ==
    (pc = "done" /\ Selected # {}) => readout.status = "ok"

\* C3: with n1 = 0 or n2 = 0 the Proportion Comparator returns
\* p1 = p2 = diff = ci_low = ci_high = 0 and p_value = 1.0 without raising,
\* on the degenerate branch (nothing is divided).
C3_DegenerateZeros ==
    (pc = "z_done" /\ (zin[2] = 0 \/ zin[4] = 0))
        => /\ zout.status = "ok"
           /\ zout.branch = "degenerate"
           /\ zout.p1 = Zero /\ zout.p2 = Zero /\ zout.diff = Zero
           /\ zout.ci_low = Plain(Zero) /\ zout.ci_high = Plain(Zero)
           /\ zout.p_value = POne

\* C3 witness: one arm empty, the other with successes
C3_Witness ==
    /\ pc = "z_done"
    /\ zin[2] = 0 /\ zin[4] > 0 /\ zin[3] > 0
    /\ zout.p_value = POne /\ zout.p2 = Zero

\* C4: with n1, n2 > 0: x1 = x2 = 0 gives diff = 0 and p_value = 1.0; and
\* whenever the pooled proportion is 0 or 1 (se_pooled = 0) and the call
\* returns, p_value is 1.0 on the guarded branch (no division by se_pooled);
\* for 0 <= x <= n that is exactly x1 + x2 = 0 or x1 = n1 and x2 = n2.
C4_ZeroPooledSE ==
    (pc = "z_done" /\ zin[2] > 0 /\ zin[4] > 0)
        => /\ (zin[1] = 0 /\ zin[3] = 0)
                => (zout.status = "ok" /\ zout.diff = Zero /\ zout.p_value = POne)
           /\ (zout.status = "ok"
                 /\ (zin[1] + zin[3] = 0 \/ zin[1] + zin[3] = zin[2] + zin[4]))
                => (zout.p_value = POne /\ zout.branch = "se_pooled_zero")
           /\ (zin[1] <= zin[2] /\ zin[3] <= zin[4])
                => (zout.branch = "se_pooled_zero"
                      <=> (zin[1] + zin[3] = 0 \/ (zin[1] = zin[2] /\ zin[3] = zin[4])))

\* C4 witness: every unit of both arms a success, se_pooled = 0
C4_Witness ==
    /\ pc = "z_done"
    /\ zin[2] > 0 /\ zin[4] > 0 /\ zin[1] = zin[2] /\ zin[3] = zin[4]
    /\ zout.branch = "se_pooled_zero" /\ zout.p_value = POne

\* the formulas of C5 over the arguments of the call
C5_p1 == Q(zin[1], zin[2])
C5_p2 == Q(zin[3], zin[4])
C5_diff == Q(zin[3] * zin[2] - zin[1] * zin[4], zin[2] * zin[4])
C5_unpooled ==
    RAdd(RDiv(RMul(C5_p1, Q(zin[2] - zin[1], zin[2])), FromInt(zin[2])),
         RDiv(RMul(C5_p2, Q(zin[4] - zin[3], zin[4])), FromInt(zin[4])))
C5_pooled ==
    RMul(RMul(Q(zin[1] + zin[3], zin[2] + zin[4]),
              Q(zin[2] + zin[4] - zin[1] - zin[3], zin[2] + zin[4])),
         Q(zin[2] + zin[4], zin[2] * zin[4]))

\* C5: for 0 <= x1 <= n1, 0 <= x2 <= n2, n1, n2 > 0: p1 = x1/n1, p2 = x2/n2,
\* diff = p2 - p1; the CI is diff -/+ z0.975 * sqrt(unpooled variance); the
\* p-value is the normal tail of z with z^2 = diff^2 / pooled variance (1.0
\* when that variance is 0).  100/1000 against 120/1000: diff = 0.02,
\* z^2 = 2000/979 < z0.975^2, so p_value > 0.05.
C5_UnpooledCIPooledTest ==
    (pc = "z_done" /\ zin[2] > 0 /\ zin[4] > 0 /\ zin[1] <= zin[2] /\ zin[3] <= zin[4])
        => /\ zout.status = "ok"
           /\ zout.p1 = C5_p1 /\ zout.p2 = C5_p2 /\ zout.diff = C5_diff
           /\ zout.ci_low = Surd(C5_diff, -1, C5_unpooled, "norm", Zero)
           /\ zout.ci_high = Surd(C5_diff, 1, C5_unpooled, "norm", Zero)
           /\ zout.p_value = IF C5_pooled = Zero THEN POne
                             ELSE NormTail(RDiv(RMul(C5_diff, C5_diff), C5_pooled))
           /\ zin = ScenarioZ
                => /\ zout.diff = <<1, 50>>
                   /\ zout.p_value.dist = "norm"
                   /\ zout.p_value.stat2 = <<2000, 979>>
                   /\ RLess(zout.p_value.stat2, Z975Sq)
                   /\ ~PBelow05(zout.p_value)

\* C5 witness: the end-to-end scenario, where pooled and unpooled differ
C5_Witness ==
    /\ pc = "z_done"
    /\ zin = ScenarioZ
    /\ zout.diff = <<1, 50>>
    /\ zout.ci_high.rad = <<489, 2500000>>
    /\ zout.p_value.stat2 = <<2000, 979>>

\* the realized sum of an indicator over the selected rows of one arm, and
\* the arm's session count, taken from the table itself
RECURSIVE SumRows(_, _)
SumRows(S, col) ==
    IF S = {} THEN 0
    ELSE LET r == CHOOSE x \in S : TRUE
         IN  fact_sessions[r] * (IF col = "sessions" THEN 1 ELSE r[col])
               + SumRows(S \ {r}, col)

Realized(variant, col) == SumRows({ r \in Selected : r.variant = variant }, col)

C6_Numerator(metric) ==
    IF metric = "ctr" THEN "has_click"
    ELSE IF metric = "atc_rate" THEN "has_add_to_cart"
    ELSE "has_purchase"

C6_Denominator(metric) ==
    IF metric = "ctr" THEN "has_impression"
    ELSE IF metric = "atc_rate" THEN "has_click"
    ELSE IF metric = "purchase_rate_given_atc" THEN "has_add_to_cart"
    ELSE "sessions"

\* C6: each proportion metric run_readout computes is, per arm, the realized
\* numerator count over the realized count of the prior funnel stage:
\* purchases/sessions, clicks/impressions, add-to-carts/clicks and
\* purchases/add-to-carts (0 for both arms when either denominator is 0).
C6_FunnelDenominators ==
    pc = "done" =>
        \A i \in 1..Len(readout.out) :
            LET r == readout.out[i]
                xc == Realized("control", C6_Numerator(r.metric))
                nc == Realized("control", C6_Denominator(r.metric))
                xt == Realized("treatment", C6_Numerator(r.metric))
                nt == Realized("treatment", C6_Denominator(r.metric))
            IN  r.metric # "revenue_per_session" =>
                    IF nc = 0 \/ nt = 0
                    THEN r.control = Zero /\ r.treatment = Zero
                    ELSE /\ r.control[1] * nc = xc * r.control[2]
                         /\ r.treatment[1] * nt = xt * r.treatment[2]

\* C6 witness: fewer impressions than sessions in the control arm, and ctr
\* is clicks over impressions there, not clicks over sessions
C6_Witness ==
    /\ pc = "done"
    /\ readout.status = "ok"
    /\ Realized("control", "has_impression") = 1
    /\ Realized("control", "sessions") = 2
    /\ Realized("control", "has_click") = 1
    /\ Realized("treatment", "has_impression") = 1
    /\ \E i \in 1..Len(readout.out) :
          readout.out[i].metric = "ctr" /\ readout.out[i].control = One

\* the metric names of a sequence of rows
RECURSIVE MetricNames(_)
MetricNames(rows) ==
    IF rows = <<>> THEN <<>> ELSE <<rows[1].metric>> \o MetricNames(Tail(rows))

\* C7: the table run_readout returns has exactly the five tracked metrics,
\* one row each, in ascending order of metric name, whatever the order in
\* which they were computed.
C7_FiveRowsSorted ==
    (pc = "done" /\ readout.status = "ok")
        => /\ Selected # {}
           /\ MetricNames(readout.display) =
                <<"atc_rate", "ctr", "purchase_rate_given_atc",
                  "purchase_rate_per_session", "revenue_per_session">>
           /\ \A i \in 1..(Len(readout.display) - 1) :
                LexLess(MetricChars(readout.display[i].metric),
                        MetricChars(readout.display[i + 1].metric))

\* C7 witness: a returned table whose first row is not the first metric computed
C7_Witness ==
    /\ pc = "done"
    /\ readout.status = "ok"
    /\ readout.out[1].metric = "purchase_rate_per_session"
    /\ readout.display[1].metric = "atc_rate"
    /\ Len(readout.display) = 5

\* C8: for every MetricResult, rel_diff * control = abs_diff when control > 0
\* and rel_diff is NaN otherwise (no division by a zero control estimate);
\* in the returned table a NaN rel_diff is the cell "NA", never digits.
C8_RelDiffUndefined ==
    pc = "done" =>
        /\ \A i \in 1..Len(readout.out) :
              LET r == readout.out[i]
              IN  IF RGreater(r.control, Zero)
                  THEN ~IsNaN(r.rel_diff) /\ RMul(r.rel_diff, r.control) = r.abs_diff
                  ELSE r.rel_diff = NaN
        /\ \A i \in 1..Len(readout.display), j \in 1..Len(readout.out) :
              LET d == readout.display[i]
                  r == readout.out[j]
              IN  d.metric = r.metric =>
                      IF RGreater(r.control, Zero)
                      THEN d.rel_diff.kind = "rel" /\ d.rel_diff.text = "digits"
                      ELSE d.rel_diff = Cell("NA", "NA", 0)

\* C8 witness: a returned table with a zero control estimate (rel_diff NaN,
\* shown as NA) and a positive one with a nonzero relative difference
C8_Witness ==
    /\ pc = "done"
    /\ readout.status = "ok"
    /\ \E i, j \in 1..Len(readout.out) :
          /\ readout.out[i].control = Zero
          /\ readout.out[i].rel_diff = NaN
          /\ RGreater(readout.out[j].control, Zero)
          /\ readout.out[j].rel_diff = <<-1, 2>>
    /\ \E i \in 1..Len(readout.display) : readout.display[i].rel_diff.text = "NA"

\* chi-square of (n_c, n_t) against the share a/b, over integers:
\* (b n_c - T(b-a))^2 / (b T (b-a)) + (b n_t - T a)^2 / (b T a), T = n_c + n_t
C9_Chi2(n_c, n_t, share) ==
    LET a == share[1]
        b == share[2]
        T == n_c + n_t
    IN  RAdd(Q((b * n_c - T * (b - a)) * (b * n_c - T * (b - a)), b * T * (b - a)),
             Q((b * n_t - T * a) * (b * n_t - T * a), b * T * a))

C9_Holds(res, counts) ==
    /\ res.n_control = counts[1]
    /\ res.n_treatment = counts[2]
    /\ res.expected_share_treatment = srm_in.share
    /\ counts[1] + counts[2] > 0 =>
          /\ res.chi2 = C9_Chi2(counts[1], counts[2], srm_in.share)
          /\ srm_in.share = <<1, 2>> =>
                res.chi2[1] * (counts[1] + counts[2])
                    = (counts[1] - counts[2]) * (counts[1] - counts[2]) * res.chi2[2]
          /\ (srm_in.share = <<1, 2>> /\ counts = <<5000, 5000>>) => res.chi2 = Zero
          /\ (srm_in.share = <<1, 2>> /\ counts = <<6000, 4000>>) => res.chi2 = <<400, 1>>

\* C9: srm_test echoes n_control, n_treatment and the share, and for a
\* positive total returns chi2 = (n_c - exp_c)^2/exp_c + (n_t - exp_t)^2/exp_t
\* with exp_c = total*(1-share), exp_t = total*share; for share 0.5 that is
\* (n_c - n_t)^2/total: 0 for (5000, 5000), 400 for (6000, 4000).
C9_SrmChiSquare ==
    flags.caller = "srm_guardrails"
        => /\ C9_Holds(srm_out.user, srm_in.users)
           /\ C9_Holds(srm_out.session, srm_in.sessions)

\* C9 witness: 6000 against 4000 users at share 0.5 (chi2 = 400), and an
\* uneven share at the session level
C9_Witness ==
    /\ flags.caller = "srm_guardrails"
    /\ srm_in.users = <<6000, 4000>>
    /\ srm_in.share = <<1, 2>>
    /\ srm_out.user.chi2 = <<400, 1>>
    /\ srm_in.sessions = <<3, 0>>

\* C10 (as claimed): every caller that reports reports "flagged" exactly when
\* p_value < 0.01 (chi2 above the 0.99 quantile) and "OK" exactly when
\* p_value >= 0.01, at the user level and at the session level alike.
C10_FlagPolicy ==
    flags.status = "ok" =>
        \A level \in {"user", "session"} :
            LET chi2 == srm_out[level].chi2
                below == ~IsNaN(chi2) /\ RGreater(chi2, Chi2Q99)
                atleast == ~IsNaN(chi2) /\ ~RGreater(chi2, Chi2Q99)
            IN  /\ (flags[level] \in {"SRM detected", "SRM", "Flag"}) <=> below
                /\ (flags[level] = "OK") <=> atleast

\* C11 (as claimed): the chi-square computation is never invoked with
\* n_control + n_treatment = 0; every caller guards the total before the call.
C11_TotalGuarded ==
    \A i \in 1..Len(srm_out.calls) :
        srm_out.calls[i][1] + srm_out.calls[i][2] > 0

\* the call of _two_sample_ttest has returned
TTestReturned == tout.ab.branch # "none"

\* C12: whenever a sample has fewer than 2 observations (empty ones included)
\* _two_sample_ttest returns diff = 0, CI = (0, 0), p_value = 1.0 from the
\* guard, before any mean, variance or t-test: no NaN of an empty or
\* one-element sample reaches the result.
C12_DegenerateMean ==
    (TTestReturned /\ (Len(tin.a) < 2 \/ Len(tin.b) < 2)) =>
        /\ tout.ab.branch = "degenerate"
        /\ tout.ab.diff = Zero
        /\ tout.ab.ci_low = Plain(Zero)
        /\ tout.ab.ci_high = Plain(Zero)
        /\ tout.ab.p_value = POne

\* C12 witness: one observation against two with a different mean, returned
\* as 0, (0, 0), 1.0
C12_Witness ==
    /\ TTestReturned
    /\ Len(tin.a) = 1
    /\ Len(tin.b) = 2
    /\ Mean(tin.a) # Mean(tin.b)
    /\ tout.ab.diff = Zero
    /\ tout.ab.p_value = POne

\* both call sites of the Mean Comparator have returned
BothReturned == tout.ab.branch # "none" /\ tout.cuped.branch # "none"

\* C13 (as claimed): for every pair of samples _two_sample_ttest and
\* welch_ttest_ci return the same diff, ci_low, ci_high and p_value, the
\* degenerate cases and se = 0 included.
C13_OneAlgorithm ==
    BothReturned =>
        /\ tout.ab.diff = tout.cuped.diff
        /\ tout.ab.ci_low = tout.cuped.ci_low
        /\ tout.ab.ci_high = tout.cuped.ci_high
        /\ tout.ab.p_value = tout.cuped.p_value

\* C14: with at least 2 observations in each sample and both sample
\* variances zero, _two_sample_ttest returns diff = mean(b) - mean(a),
\* CI = (diff, diff) and p_value = 1.0 from the se == 0 guard, which comes
\* before the degrees of freedom and the t critical value.
C14_ZeroSE ==
    (/\ TTestReturned
     /\ Len(tin.a) >= 2
     /\ Len(tin.b) >= 2
     /\ Var1(tin.a) = Zero
     /\ Var1(tin.b) = Zero) =>
        /\ tout.ab.branch = "se_zero"
        /\ tout.ab.diff = RSub(Mean(tin.b), Mean(tin.a))
        /\ tout.ab.ci_low = Plain(tout.ab.diff)
        /\ tout.ab.ci_high = Plain(tout.ab.diff)
        /\ tout.ab.p_value = POne

\* C14 witness: two constant samples with different means
C14_Witness ==
    /\ TTestReturned
    /\ tin.a = <<1, 1>>
    /\ tin.b = <<2, 2, 2>>
    /\ tout.ab.diff = One
    /\ tout.ab.p_value = POne

\* C15: comparing a sample of at least 2 observations with an element-wise
\* equal one gives diff = 0 and p_value = 1.0, and a CI 0 -/+ tcrit * se:
\* symmetric about 0 and containing it, a point when the variance is zero.
C15_IdenticalSamples ==
    (TTestReturned /\ Len(tin.a) >= 2 /\ tin.b = tin.a) =>
        /\ tout.ab.diff = Zero
        /\ tout.ab.p_value = POne
        /\ tout.ab.ci_low.base = Zero
        /\ tout.ab.ci_high.base = Zero
        /\ tout.ab.ci_low.sign = -tout.ab.ci_high.sign
        /\ tout.ab.ci_low.sign <= 0
        /\ tout.ab.ci_low.rad = tout.ab.ci_high.rad
        /\ tout.ab.ci_low.df = tout.ab.ci_high.df
        /\ (Var1(tin.a) = Zero) <=> (tout.ab.ci_low = Plain(Zero))

\* C15 witness: identical samples with a positive variance
C15_Witness ==
    /\ TTestReturned
    /\ tin.a = <<0, 2, 1>>
    /\ tin.b = tin.a
    /\ tout.ab.branch = "welch"
    /\ tout.ab.ci_low.sign = -1

\* the Welch branch of a returned comparison: both samples have at least 2
\* observations and se # 0
C20_Welch(r) == r.branch \in {"welch", "welch_fallback"}

C20_DfInRange(r) ==
    LET lo == IF Len(tin.a) < Len(tin.b) THEN Len(tin.a) - 1 ELSE Len(tin.b) - 1
        hi == Len(tin.a) + Len(tin.b) - 2
        df == r.ci_low.df
    IN  /\ r.branch = "welch"
        /\ r.ci_high.df = df
        /\ RGeq(df, FromInt(lo))
        /\ RGeq(FromInt(hi), df)

\* C20: whenever both samples have at least 2 observations and se # 0, the
\* Welch-Satterthwaite denominator is strictly positive, so the na + nb - 2
\* fallback is not taken, and min(na, nb) - 1 <= df <= na + nb - 2, in
\* _two_sample_ttest and in welch_ttest_ci alike.
C20_WelchDf ==
    /\ (/\ TTestReturned
        /\ Len(tin.a) >= 2
        /\ Len(tin.b) >= 2
        /\ ~(Var1(tin.a) = Zero /\ Var1(tin.b) = Zero)) => C20_DfInRange(tout.ab)
    /\ C20_Welch(tout.ab) => C20_DfInRange(tout.ab)
    /\ C20_Welch(tout.cuped) => C20_DfInRange(tout.cuped)

\* C20 witness: samples of different lengths and variances, with a df
\* strictly between the two bounds
C20_Witness ==
    /\ BothReturned
    /\ Len(tin.a) = 2
    /\ Len(tin.b) = 3
    /\ tout.ab.branch = "welch"
    /\ tout.cuped.branch = "welch"
    /\ RGreater(tout.ab.ci_low.df, FromInt(1))
    /\ RLess(tout.ab.ci_low.df, FromInt(3))

\* C19 (as claimed): in every MetricResult run_readout computes, for each of
\* the five metrics, abs_diff = treatment - control, also when an arm has a
\* zero denominator or fewer than 2 rows.
C19_DiffConsistent ==
    \A i \in 1..Len(readout.out) :
        readout.out[i].abs_diff = RSub(readout.out[i].treatment, readout.out[i].control)

\* the covariate is the same for every user
ConstantX == \A i, j \in 1..Len(cuped_out.x) : cuped_out.x[i] = cuped_out.x[j]

\* C16: when every x[i] is the same value, theta = 0 without a division by
\* var(x), y_adjusted[i] = y[i] for every i, and the CUPED comparison (diff,
\* CI, p-value) equals the raw comparison.
C16_ConstantCovariate ==
    (cuped_out.status = "ok" /\ ConstantX) =>
        /\ cuped_out.theta = Zero
        /\ cuped_out.y_cuped = cuped_out.y
        /\ cuped_out.cup = cuped_out.raw

\* C16 witness: four users with the same nonzero covariate, two in each arm,
\* and a Welch comparison with a nonzero difference
C16_Witness ==
    /\ cuped_out.status = "ok"
    /\ ConstantX
    /\ Len(cuped_out.x) = 4
    /\ cuped_out.x[1] = One
    /\ cuped_out.var_x = Zero
    /\ RGreater(cuped_out.var_raw, Zero)
    /\ cuped_out.raw.branch = "welch"
    /\ cuped_out.raw.diff # Zero
    /\ cuped_out.cup = cuped_out.raw

\* C17: variance_reduction_fraction is 1 - var(y_adjusted)/var(y) when
\* var(y) > 0 and 0 otherwise; it is at most 1, it is 0 whenever theta = 0,
\* and it is never negative.
C17_VarianceReduction ==
    cuped_out.status = "ok" =>
        /\ cuped_out.var_red =
              IF RGreater(RVar1(cuped_out.y), Zero)
              THEN RSub(One, RDiv(RVar1(cuped_out.y_cuped), RVar1(cuped_out.y)))
              ELSE Zero
        /\ RGeq(One, cuped_out.var_red)
        /\ RGeq(cuped_out.var_red, Zero)
        /\ cuped_out.theta = Zero => cuped_out.var_red = Zero

\* C17 witness: a covariate that explains part of the variance (a reduction
\* strictly between 0 and 1)
C17_Witness ==
    /\ cuped_out.status = "ok"
    /\ cuped_out.theta # Zero
    /\ RGreater(cuped_out.var_red, Zero)
    /\ RLess(cuped_out.var_red, One)

\* C18 (as claimed): the decision of the report generator and of the
\* dashboard is "ship" exactly when the raw p_value of
\* purchase_rate_per_session is < 0.05 and its raw abs_diff is > 0, and
\* "hold" otherwise; 100/1000 against 120/1000 gives "hold".
C18_DecisionOnRawValues ==
    decision.status = "ok" =>
        LET r == readout.out[1]
            raw == PBelow05(r.p_value) /\ RGreater(r.abs_diff, Zero)
        IN  /\ r.metric = "purchase_rate_per_session"
            /\ (decision.decision = "ship") <=> raw
            /\ (decision.decision = "hold") <=> ~raw
            /\ zin = ScenarioZ => decision.decision = "hold"

=============================================================================
